---- MODULE Spec2Model ----
(***************************************************************************)
(* A model of sprocs (src/main.go): the T-SQL listener that extracts the   *)
(* tables and portfolio codes a stored procedure mentions, and the         *)
(* goroutine pipeline (getSprocs -> 6 parsing workers -> 3 CSV sinks) that *)
(* main() runs it in.                                                      *)
(*                                                                         *)
(* A Go string is modelled as a sequence of one-character strings, so that *)
(* ToUpper, TrimSpace, Split, TrimPrefix ... are computed character by     *)
(* character as package strings computes them.                            *)
(***************************************************************************)
EXTENDS Integers, Sequences, FiniteSets, Bags, TLC

\* ------------------------------------------------------------------ bounds
\* events the parser delivers to one listener before the end of the input
MaxEvents == 3
\* rows of [BRS].[dbo].[BRS_ConfigDrivenETLs] (the routine feed)
MaxFeed == 2

\* ----------------------------------------------------------- Go strings
\* The functions of package strings are functions on Str.
Str == Seq(STRING)

LowerCase == <<"a", "b", "d", "o", "r", "s", "t", "u", "x">>
UpperCase == <<"A", "B", "D", "O", "R", "S", "T", "U", "X">>

ToUpperChar(c) ==
    IF \E i \in 1..Len(LowerCase) : LowerCase[i] = c
    THEN UpperCase[CHOOSE i \in 1..Len(LowerCase) : LowerCase[i] = c]
    ELSE c

ToUpper[s \in Str] == [i \in 1..Len(s) |-> ToUpperChar(s[i])]

HasPrefix[s \in Str, p \in Str] ==
    Len(s) >= Len(p) /\ SubSeq(s, 1, Len(p)) = p

HasSuffix[s \in Str, p \in Str] ==
    Len(s) >= Len(p) /\ SubSeq(s, Len(s) - Len(p) + 1, Len(s)) = p

TrimPrefix[s \in Str, p \in Str] ==
    IF HasPrefix[s, p] THEN SubSeq(s, Len(p) + 1, Len(s)) ELSE s

TrimSuffix[s \in Str, p \in Str] ==
    IF HasSuffix[s, p] THEN SubSeq(s, 1, Len(s) - Len(p)) ELSE s

Contains[s \in Str, c \in STRING] == \E i \in 1..Len(s) : s[i] = c

TrimLeft[s \in Str] ==
    IF s # << >> /\ Head(s) = " " THEN TrimLeft[Tail(s)] ELSE s

TrimRight[s \in Str] ==
    IF s # << >> /\ s[Len(s)] = " " THEN TrimRight[SubSeq(s, 1, Len(s) - 1)] ELSE s

TrimSpace[s \in Str] == TrimRight[TrimLeft[s]]

\* strings.Split(s, sep) for a one-character sep: never an empty slice, the
\* empty string splits into one empty element
Split[s \in Str, sep \in STRING] ==
    IF ~Contains[s, sep]
    THEN <<s>>
    ELSE LET i == CHOOSE k \in 1..Len(s) :
                      s[k] = sep /\ \A j \in 1..(k - 1) : s[j] # sep
         IN  <<SubSeq(s, 1, i - 1)>> \o Split[SubSeq(s, i + 1, Len(s)), sep]

Join[elems \in Seq(Str), sep \in STRING] ==
    IF elems = << >> THEN << >>
    ELSE IF Len(elems) = 1 THEN elems[1]
    ELSE elems[1] \o <<sep>> \o Join[Tail(elems), sep]

\* ------------------------------------------------------------ normalizer
removeBrackets[in \in Str] == TrimPrefix[TrimSuffix[in, <<"]">>], <<"[">>]

BRS == <<"B", "R", "S">>

\* log.Fatalln ends the process: the result records it instead of a key
Fatal == [fatal |-> TRUE, out |-> << >>]
Key(s) == [fatal |-> FALSE, out |-> s]

normalizeTableName[in \in Str] ==
    LET elems == Split[ToUpper[TrimSpace[in]], "."]
        normalizedElems == [i \in 1..Len(elems) |-> removeBrackets[elems[i]]]
    IN  CASE Len(elems) = 0 -> Fatal
          [] Len(elems) \in {1, 2} -> Key(removeBrackets[elems[Len(elems)]])
          [] Len(elems) = 3 ->
                IF normalizedElems[1] = BRS
                THEN Key(normalizedElems[3])
                ELSE Key(Join[normalizedElems, "."])
          [] OTHER -> Fatal

\* ------------------------------------------------ the listener (extractor)
\* NewSprocInfo: the three empty maps of a fresh listener
NewSprocInfo == [Tables |-> {}, Aliases |-> {}, Portfolios |-> {}]
SprocInfos == [Tables : SUBSET Str, Aliases : SUBSET Str, Portfolios : SUBSET Str]

\* A listener callback either returns the new SprocInfo or ends the process
Info(i) == [fatal |-> FALSE, info |-> i]
Exit1 == [fatal |-> TRUE, info |-> NewSprocInfo]

\* EnterTable_name gone wrong: the text is recorded as written
EnterTable_nameRaw(info, text) ==
    IF Len(TrimSpace[text]) > 0
    THEN Info([info EXCEPT !.Tables = @ \cup {TrimSpace[text]}])
    ELSE Info(info)

EnterTable_name(info, text) ==
    LET n == normalizeTableName[TrimSpace[text]]
    IN  IF n.fatal THEN Exit1
        ELSE IF Len(n.out) > 0
             THEN Info([info EXCEPT !.Tables = @ \cup {n.out}])
             ELSE Info(info)

EnterSimple_id(info, text, pkeys) ==
    LET id == TrimSpace[text]
    IN  IF id \in pkeys
        THEN Info([info EXCEPT !.Portfolios = @ \cup {id}])
        ELSE Info(info)

\* id is reassigned by the suffix-wildcard branch before the prefix-wildcard
\* branch tests it
EnterConstant(info, text, pkeys) ==
    LET id0 == TrimSuffix[TrimPrefix[TrimSpace[text], <<"'">>], <<"'">>]
        exact == IF id0 \in pkeys THEN {id0} ELSE {}
        sfx == HasSuffix[id0, <<"%">>]
        id1 == IF sfx THEN TrimSuffix[id0, <<"%">>] ELSE id0
        byPrefix == IF sfx THEN {k \in pkeys : HasPrefix[k, id1]} ELSE {}
        pfx == HasPrefix[id1, <<"%">>]
        id2 == IF pfx THEN TrimPrefix[id1, <<"%">>] ELSE id1
        bySuffix == IF pfx THEN {k \in pkeys : HasSuffix[k, id2]} ELSE {}
    IN  Info([info EXCEPT !.Portfolios = @ \cup exact \cup byPrefix \cup bySuffix])

\* EnterTable_alias gone wrong: the alias strikes the tables recorded so
\* far instead of being recorded itself
EnterTable_aliasPrune(info, text) ==
    LET n == normalizeTableName[TrimSpace[text]]
    IN  IF n.fatal THEN Exit1
        ELSE Info([info EXCEPT !.Tables = {t \in @ : ToUpper[t] # ToUpper[n.out]}])

EnterTable_alias(info, text) ==
    LET n == normalizeTableName[TrimSpace[text]]
    IN  IF n.fatal THEN Exit1
        ELSE IF Len(n.out) > 0
             THEN Info([info EXCEPT !.Aliases = @ \cup {ToUpper[n.out]}])
             ELSE Info(info)

\* the orders in which `for k := range m` may visit the keys of a map
RangeOrders(m) ==
    {f \in [1..Cardinality(m) -> m] :
        \A i, j \in 1..Cardinality(m) : i # j => f[i] # f[j]}

\* the table loop gone wrong: the whitelist is not consulted
ExitTableNoWhitelist(table, aliases, seen, wl) ==
    IF HasPrefix[table, <<"#">>] THEN "skip"
    ELSE IF ToUpper[table] \in aliases THEN "skip"
    ELSE IF ToUpper[table] \in seen THEN "skip"
    ELSE "send"

\* the table loop gone wrong: the whitelist is consulted for every key
ExitTableAlwaysWhitelist(table, aliases, seen, wl) ==
    IF HasPrefix[table, <<"#">>] THEN "skip"
    ELSE IF ToUpper[table] \in aliases THEN "skip"
    ELSE IF ToUpper[table] \in seen THEN "skip"
    ELSE IF ToUpper[table] \notin wl THEN "drop"
    ELSE "send"

\* one turn of the table loop of ExitTsql_file: "skip" (continue), "send",
\* or "drop" (marked seen, not whitelisted)
ExitTable(table, aliases, seen, wl) ==
    IF HasPrefix[table, <<"#">>] THEN "skip"
    ELSE IF ToUpper[table] \in aliases THEN "skip"
    ELSE IF ToUpper[table] \in seen THEN "skip"
    ELSE IF Contains[table, "."] THEN "send"
    ELSE IF ToUpper[table] \notin wl THEN "drop"
    ELSE "send"

\* the table loop of ExitTsql_file over the keys in the order `order`:
\* what it sends down tablesUsedCh
ExitTables[order \in Seq(Str), aliases \in SUBSET Str, seen \in SUBSET Str, wl \in SUBSET Str] ==
    IF order = << >> THEN << >>
    ELSE LET table == Head(order)
             turn == ExitTable(table, aliases, seen, wl)
             seen2 == IF turn = "skip" THEN seen ELSE seen \cup {ToUpper[table]}
         IN  (IF turn = "send" THEN <<table>> ELSE << >>)
                \o ExitTables[Tail(order), aliases, seen2, wl]

\* ExitTsql_file: every pair (tables sent, portfolio codes sent) the two
\* range loops can produce
ExitTsql_file(info, wl) ==
    {[tables |-> ExitTables[to, info.Aliases, {}, wl], portfolios |-> po] :
        to \in RangeOrders(info.Tables), po \in RangeOrders(info.Portfolios)}

\* --------------------------------------------------------------- inputs
\* identifiers as the lexer hands them over (ID, SQUARE_BRACKET_ID)
id_t == <<"t">>
id_T == <<"[", "T", "]">>
id_u == <<"u">>
id_a == <<"a">>
id_tmp == <<"#", "x">>
id_dbo == <<"d", "b", "o">>
id_brs == <<"[", "b", "r", "s", "]">>
id_db == <<"d", "b">>
id_srv == <<"s">>
id_pad == <<"[", "t", " ", "]">>
id_dots == <<"[", "a", ".", "b", ".", "t", ".", "u", "]">>

\* table_name contexts, as their dot-separated identifiers: unqualified,
\* schema-qualified, qualified with the home database BRS, qualified with
\* another database, one with four parts, one whose bracketed name ends
\* with a space, and one without any token (GetText() is "")
TableRefs ==
    { <<id_t>>, <<id_T>>, <<id_dbo, id_u>>, <<id_pad>>, << << >> >>,
      <<BRS, id_dbo, id_t>>, <<id_brs, id_dbo, id_u>>,
      <<id_db, id_dbo, id_t>>, <<id_db, << >>, id_u>>,
      <<id_tmp>>, <<id_dbo, id_tmp>>, <<BRS, id_dbo, id_tmp>>,
      <<id_db, id_dbo, id_tmp>>,
      <<id_srv, id_db, id_dbo, id_t>> }

\* ctx.GetText() of a table_name context
RefText(ref) == Join[ref, "."]

\* table_alias contexts; the last is one bracketed identifier with three
\* dots in it
AliasTexts == { id_t, <<"[", "U", "]">>, id_a, id_dots }

\* simple_id and constant contexts
IdTexts == { <<"a", "b">>, id_u }
ConstantTexts ==
    { <<"'", "a", "b", "'">>, <<"'", "a", "%", "'">>,
      <<"'", "%", "b", "'">>, <<"'", "%", "a", "%", "'">> }

\* no node entered yet
NoEvent == [type |-> "none"]

\* what the parser can deliver to a listener
Events ==
    [type : {"table_name"}, ref : TableRefs]
    \cup [type : {"table_alias"}, text : AliasTexts]
    \cup [type : {"simple_id"}, text : IdTexts]
    \cup [type : {"constant"}, text : ConstantTexts]

\* rows of BRS.INFORMATION_SCHEMA.Tables and codes of vw_AMPortfolioMaster
TableRows == { <<"t", " ">>, <<"U">> }
PortfolioRows == { <<"a", "b">>, <<"b">>, <<"b", "a">> }
\* the code sets a listener may find loaded
PortfolioCatalogs == { {}, { <<"a", "b">> }, PortfolioRows }

\* the whitelist getSprocs builds from the table rows
LoadWhitelist(rows) == {ToUpper[TrimSpace[r]] : r \in rows}

\* ---------------------------------------------------------------- state
VARIABLES
    whitelist,        \* package variable whitelist (its keys)
    portfolioKeys,    \* package variable portfolioKeys (its keys)
    bar,              \* package variable bar: Nil, or the progress bar
    \* one listener, walked event by event
    info,             \* l.info of the listener under walk
    walk,             \* "idle", "parse", "walk", "exited" or "fatal"
    delivered,        \* the events the listener has been given
    lastEntered,      \* the one given last
    syntaxErrors,     \* SyntaxError calls of the parse
    tablesUsedCh,     \* what the listener has sent down l.tablesUsedCh
    portfolioCodesCh, \* what the listener has sent down l.portfolioCodesCh
    \* the database and the directory of definition files
    sprocRows,        \* the rows of activeSprocQ with what sprocQ returns
    tableRowsLeft,    \* rows of tableQ not yet scanned
    portfolioRowsLeft,\* codes of portfolioQ not yet scanned
    files,            \* defDir: the content of <name>.sql, by name
    \* main and getSprocs
    poolSize,         \* bound of the loop that starts the workers
    mainPc,           \* where the main goroutine is
    spawned,          \* handleSprocDetails goroutines started so far
    sprocNames,       \* getSprocs: names of the active procedures
    validIndices,     \* getSprocs: indices of those with a definition
    sendIdx,          \* getSprocs: position of the send loop in validIndices
    sprocChClosed,    \* close(sprocCh) has run
    chans,            \* tablesCh, portfoliosCh, errCh: buffer and closed flag
    wg,               \* counter of the WaitGroup
    worker,           \* the handleSprocDetails goroutines
    sink,             \* handleTables, handlePortfolios, handleErrors
    halted,           \* "no", "fatal" (log.Fatalln) or "panic"
    \* history
    dispatched,       \* tasks getSprocs has sent, by position in validIndices
    received,         \* for each dispatched task, the receives of it by a worker
    parsed,           \* for each dispatched task, the parseSproc calls on it
    published         \* for each channel, the rows sent on it so far

globals == <<whitelist, portfolioKeys, bar>>
evars == <<info, walk, delivered, lastEntered, syntaxErrors, tablesUsedCh,
           portfolioCodesCh>>
dbvars == <<sprocRows, tableRowsLeft, portfolioRowsLeft, files>>
mvars == <<poolSize, mainPc, spawned, sprocNames, validIndices, sendIdx,
           sprocChClosed, wg>>
hvars == <<dispatched, received, parsed, published>>
pvars == <<dbvars, mvars, chans, worker, sink, halted, hvars>>
vars == <<globals, evars, pvars>>

\* the zero value of `bar *pb.ProgressBar`
Nil == [nil |-> TRUE, total |-> 0, current |-> 0]

\* ------------------------------------------------- pipeline constants
\* `for i := 0; i < 6; i++` of main
NumWorkers == 6
\* the pool sizes compared: a single worker, and the pool main starts
PoolSizes == {1, NumWorkers}
\* make(chan []string, 1)
ChanCap == 1

ChanNames == {"tables", "portfolios", "errors"}

Header(c) ==
    CASE c = "tables" -> <<"Stored Procedure", "Table Used">>
      [] c = "portfolios" -> <<"Stored Procedure", "Portfolio Code Mentioned">>
      [] c = "errors" -> <<"Stored Procedure", "Error Count">>

\* What OBJECT_DEFINITION returns for a procedure. The definition text stands
\* for what the generated parser makes of it: the syntax errors p.Tsql_file()
\* reports and the nodes the tree walker enters, in order.
NullDef == [valid |-> FALSE, errors |-> 0, events |-> << >>]
Def(n, evs) == [valid |-> TRUE, errors |-> n, events |-> evs]

TableName(ref) == [type |-> "table_name", ref |-> ref]
Constant(text) == [type |-> "constant", text |-> text]
TableAlias(text) == [type |-> "table_alias", text |-> text]

\* the procedures the feed is drawn from, ordered by name
Library ==
    << [name |-> "p1", def |-> Def(1, <<TableName(<<id_t>>)>>)],
       [name |-> "p2", def |-> Def(2, <<Constant(<<"'", "a", "b", "'">>),
                                        TableName(<<id_db, id_dbo, id_t>>)>>)],
       [name |-> "p3", def |-> NullDef],
       [name |-> "p4", def |-> Def(0, <<TableName(<<id_srv, id_db, id_dbo, id_t>>)>>)],
       [name |-> "p5", def |-> Def(0, << >>)],
       [name |-> "p6", def |-> Def(0, <<TableAlias(id_dots)>>)] >>

\* activeSprocQ is ORDER BY ResultsStoredProc ASC: a feed is sorted by name
Feeds ==
    {[i \in 1..Len(f) |-> Library[f[i]]] :
        f \in {g \in UNION {[1..n -> 1..Len(Library)] : n \in 0..MaxFeed} :
                  \A i, j \in 1..Len(g) : i < j => g[i] <= g[j]}}

\* the names of the procedures, and a file just created: no text
Names == {Library[i].name : i \in 1..Len(Library)}
EmptyFile == Def(0, << >>)

NoTask == [key |-> "", value |-> NullDef]
\* a handleSprocDetails goroutine at the head of its range loop. The
\* goroutines carry no identity in the code: the pool is a bag of them.
NewWorker == [pc |-> "recv", s |-> NoTask, n |-> 0,
              errors |-> << >>, tables |-> << >>, portfolios |-> << >>]
\* the pool with goroutine w having moved on to w2
Become(pool, w, w2) == (pool (-) SetToBag({w})) (+) SetToBag({w2})
IdleSink == [pc |-> "unborn", rows |-> << >>, counts |-> << >>, flushes |-> 0]
OpenChan == [buf |-> << >>, closed |-> FALSE]

\* nothing of the pipeline runs
PipelineIdle ==
    /\ sprocRows = << >>
    /\ tableRowsLeft = {}
    /\ portfolioRowsLeft = {}
    /\ files = [k \in Names |-> NullDef]
    /\ poolSize = NumWorkers
    /\ mainPc = "idle"
    /\ spawned = 0
    /\ sprocNames = << >>
    /\ validIndices = << >>
    /\ sendIdx = 0
    /\ sprocChClosed = FALSE
    /\ chans = [c \in ChanNames |-> OpenChan]
    /\ wg = 0
    /\ worker = EmptyBag
    /\ sink = [c \in ChanNames |-> IdleSink]
    /\ halted = "no"
    /\ dispatched = << >>
    /\ received = << >>
    /\ parsed = << >>
    /\ published = [c \in ChanNames |-> 0]

\* ------------------------------------------- one parse, event by event
Dispatch(i, e, pkeys) ==
    CASE e.type = "table_name" -> EnterTable_name(i, RefText(e.ref))
      [] e.type = "table_alias" -> EnterTable_alias(i, e.text)
      [] e.type = "simple_id" -> EnterSimple_id(i, e.text, pkeys)
      [] e.type = "constant" -> EnterConstant(i, e.text, pkeys)

ExtractInit ==
    /\ whitelist \in {LoadWhitelist(rows) : rows \in SUBSET TableRows}
    /\ portfolioKeys \in PortfolioCatalogs
    /\ bar = Nil
    /\ PipelineIdle
    /\ info = NewSprocInfo
    /\ walk = "parse"
    /\ delivered = {}
    /\ lastEntered = NoEvent
    /\ syntaxErrors = 0
    /\ tablesUsedCh = << >>
    /\ portfolioCodesCh = << >>

\* p.Tsql_file() reports a syntax error to the error listener and recovers
SyntaxError ==
    /\ walk = "parse"
    /\ syntaxErrors + Cardinality(delivered) < MaxEvents
    /\ syntaxErrors' = syntaxErrors + 1
    /\ UNCHANGED <<globals, pvars, info, walk, delivered, lastEntered,
                   tablesUsedCh, portfolioCodesCh>>

\* p.Tsql_file() returns the tree, ParseTreeWalkerDefault.Walk starts
Walk ==
    /\ walk = "parse"
    /\ walk' = "walk"
    /\ UNCHANGED <<globals, pvars, info, delivered, lastEntered,
                   syntaxErrors, tablesUsedCh, portfolioCodesCh>>

\* the walker enters a node the listener overrides
Enter(e) ==
    /\ walk = "walk"
    /\ e \notin delivered
    /\ syntaxErrors + Cardinality(delivered) < MaxEvents
    /\ LET r == Dispatch(info, e, portfolioKeys)
       IN  /\ info' = r.info
           /\ walk' = IF r.fatal THEN "fatal" ELSE "walk"
    /\ delivered' = delivered \cup {e}
    /\ lastEntered' = e
    /\ UNCHANGED <<globals, pvars, syntaxErrors, tablesUsedCh,
                   portfolioCodesCh>>

\* the walker leaves the root: ExitTsql_file sends what survived
EndOfInput ==
    /\ walk = "walk"
    /\ \E sent \in ExitTsql_file(info, whitelist) :
          /\ tablesUsedCh' = sent.tables
          /\ portfolioCodesCh' = sent.portfolios
    /\ walk' = "exited"
    /\ UNCHANGED <<globals, pvars, info, delivered, lastEntered, syntaxErrors>>

ExtractNext ==
    \/ SyntaxError
    \/ Walk
    \/ \E e \in Events : Enter(e)
    \/ EndOfInput

ExtractSpec == ExtractInit /\ [][ExtractNext]_vars

\* -------------------------------------------------- parseSproc, as a whole
\* the walk of the events of one definition, from a fresh listener
WalkEvents[i \in SprocInfos, events \in Seq(Events), pkeys \in SUBSET Str] ==
    IF events = << >> THEN Info(i)
    ELSE LET r == Dispatch(i, Head(events), pkeys)
         IN  IF r.fatal THEN Exit1 ELSE WalkEvents[r.info, Tail(events), pkeys]

\* strconv.Itoa
Digits == <<"0", "1", "2", "3", "4", "5", "6", "7", "8", "9">>
RECURSIVE Itoa(_)
Itoa(n) ==
    IF n < 10 THEN <<Digits[n + 1]>>
    ELSE Itoa(n \div 10) \o <<Digits[(n % 10) + 1]>>

\* the value of a keyValue the error listener sends: the message text
ErrorText(k) == <<"L", "i", "n", "e", ":", " ">> \o Itoa(k)

\* parseSproc gone wrong: the tree of a definition with a syntax error is
\* not walked, the errors are all it returns
parseSprocStrict(sproc, wl, pkeys) ==
    IF sproc.value.errors > 0
    THEN {[fatal |-> FALSE,
           errors |-> [k \in 1..sproc.value.errors |-> ErrorText(k)],
           tables |-> << >>,
           portfolios |-> << >>]}
    ELSE UNION {
        IF r.fatal
        THEN {[fatal |-> TRUE, errors |-> << >>, tables |-> << >>,
               portfolios |-> << >>]}
        ELSE {[fatal |-> FALSE,
               errors |-> << >>,
               tables |-> sent.tables,
               portfolios |-> sent.portfolios] :
                 sent \in ExitTsql_file(r.info, wl)} :
        r \in {WalkEvents[NewSprocInfo, sproc.value.events, pkeys]}}

\* parseSproc(sproc): what it can return (errors, tables, portfolios), or
\* that a listener callback ended the process
parseSproc(sproc, wl, pkeys) ==
    UNION {
        IF r.fatal
        THEN {[fatal |-> TRUE, errors |-> << >>, tables |-> << >>,
               portfolios |-> << >>]}
        ELSE {[fatal |-> FALSE,
               errors |-> [k \in 1..sproc.value.errors |-> ErrorText(k)],
               tables |-> sent.tables,
               portfolios |-> sent.portfolios] :
                 sent \in ExitTsql_file(r.info, wl)} :
        r \in {WalkEvents[NewSprocInfo, sproc.value.events, pkeys]}}

\* ------------------------------------------------------------- pipeline
PipelineInit ==
    /\ whitelist = {}
    /\ portfolioKeys = {}
    /\ bar = Nil
    /\ info = NewSprocInfo
    /\ walk = "idle"
    /\ delivered = {}
    /\ lastEntered = NoEvent
    /\ syntaxErrors = 0
    /\ tablesUsedCh = << >>
    /\ portfolioCodesCh = << >>
    /\ sprocRows \in Feeds
    /\ tableRowsLeft = TableRows
    /\ portfolioRowsLeft = PortfolioRows
    /\ files = [k \in Names |-> NullDef]
    /\ poolSize \in PoolSizes
    /\ mainPc = "goSinks"
    /\ spawned = 0
    /\ sprocNames = << >>
    /\ validIndices = << >>
    /\ sendIdx = 0
    /\ sprocChClosed = FALSE
    /\ chans = [c \in ChanNames |-> OpenChan]
    /\ wg = 0
    /\ worker = EmptyBag
    /\ sink = [c \in ChanNames |-> IdleSink]
    /\ halted = "no"
    /\ dispatched = << >>
    /\ received = << >>
    /\ parsed = << >>
    /\ published = [c \in ChanNames |-> 0]

Running == halted = "no"

\* a send on channel c: buffered if there is room, a panic if c is closed
CanSend(c) == chans[c].closed \/ Len(chans[c].buf) < ChanCap

\* main: go handleTables, go handlePortfolios, go handleErrors
MainGoSinks ==
    /\ Running /\ mainPc = "goSinks"
    /\ sink' = [c \in ChanNames |-> [sink[c] EXCEPT !.pc = "start"]]
    /\ mainPc' = "goWorkers"
    /\ UNCHANGED <<globals, evars, dbvars, poolSize, spawned, sprocNames,
                   validIndices, sendIdx, sprocChClosed, wg, chans, worker,
                   halted, hvars>>

\* main: wg.Add(1); go handleSprocDetails(...)
MainGoWorker ==
    /\ Running /\ mainPc = "goWorkers" /\ spawned < poolSize
    /\ wg' = wg + 1
    /\ spawned' = spawned + 1
    /\ worker' = worker (+) SetToBag({NewWorker})
    /\ UNCHANGED <<globals, evars, dbvars, poolSize, mainPc, sprocNames,
                   validIndices, sendIdx, sprocChClosed, chans, sink, halted,
                   hvars>>

\* main: the loop is over, getSprocs is called
MainCallGetSprocs ==
    /\ Running /\ mainPc = "goWorkers" /\ spawned = poolSize
    /\ mainPc' = "loadTables"
    /\ UNCHANGED <<globals, evars, dbvars, poolSize, spawned, sprocNames,
                   validIndices, sendIdx, sprocChClosed, wg, chans, worker,
                   sink, halted, hvars>>

\* getSprocs: one rows.Next() of tableQ
LoadTable ==
    /\ Running /\ mainPc = "loadTables"
    /\ \E tableName \in tableRowsLeft :
          /\ whitelist' = whitelist \cup {ToUpper[TrimSpace[tableName]]}
          /\ tableRowsLeft' = tableRowsLeft \ {tableName}
    /\ UNCHANGED <<portfolioKeys, bar, evars, sprocRows, portfolioRowsLeft,
                   files, mvars, chans, worker, sink, halted, hvars>>

\* getSprocs: tableQ is exhausted
TablesLoaded ==
    /\ Running /\ mainPc = "loadTables" /\ tableRowsLeft = {}
    /\ mainPc' = "loadPortfolios"
    /\ UNCHANGED <<globals, evars, dbvars, poolSize, spawned, sprocNames,
                   validIndices, sendIdx, sprocChClosed, wg, chans, worker,
                   sink, halted, hvars>>

\* getSprocs: one valid code of a row of portfolioQ
LoadPortfolio ==
    /\ Running /\ mainPc = "loadPortfolios"
    /\ \E code \in portfolioRowsLeft :
          /\ portfolioKeys' = portfolioKeys \cup {code}
          /\ portfolioRowsLeft' = portfolioRowsLeft \ {code}
    /\ UNCHANGED <<whitelist, bar, evars, sprocRows, tableRowsLeft, files,
                   mvars, chans, worker, sink, halted, hvars>>

\* getSprocs gone wrong: a procedure without a definition is kept in
\* validIndices
FetchDefinitionsAll ==
    /\ Running /\ mainPc = "loadPortfolios" /\ portfolioRowsLeft = {}
    /\ sprocNames' = [i \in 1..Len(sprocRows) |-> sprocRows[i].name]
    /\ validIndices' = [i \in 1..Len(sprocRows) |-> i]
    /\ files' = [k \in Names |->
                    IF \E i \in 1..Len(sprocRows) :
                          sprocRows[i].name = k /\ sprocRows[i].def.valid
                    THEN sprocRows[CHOOSE i \in 1..Len(sprocRows) :
                                      sprocRows[i].name = k].def
                    ELSE files[k]]
    /\ mainPc' = "bar"
    /\ UNCHANGED <<globals, evars, sprocRows, tableRowsLeft, portfolioRowsLeft,
                   poolSize, spawned, sendIdx, sprocChClosed, wg, chans, worker,
                   sink, halted, hvars>>

\* getSprocs gone wrong: it leaves the loop over portfolioQ before the last
\* row and goes on to the definitions
FetchDefinitionsEarly ==
    /\ Running /\ mainPc = "loadPortfolios"
    /\ sprocNames' = [i \in 1..Len(sprocRows) |-> sprocRows[i].name]
    /\ validIndices' = SelectSeq([i \in 1..Len(sprocRows) |-> i],
                                 LAMBDA i : sprocRows[i].def.valid)
    /\ files' = [k \in Names |->
                    IF \E i \in 1..Len(sprocRows) :
                          sprocRows[i].name = k /\ sprocRows[i].def.valid
                    THEN sprocRows[CHOOSE i \in 1..Len(sprocRows) :
                                      sprocRows[i].name = k].def
                    ELSE files[k]]
    /\ mainPc' = "bar"
    /\ UNCHANGED <<globals, evars, sprocRows, tableRowsLeft, portfolioRowsLeft,
                   poolSize, spawned, sendIdx, sprocChClosed, wg, chans, worker,
                   sink, halted, hvars>>

\* getSprocs: portfolioQ is exhausted; the names are fetched, then the
\* definitions: validIndices keeps the rows whose definition is not NULL,
\* and each of these is written to <name>.sql
FetchDefinitions ==
    /\ Running /\ mainPc = "loadPortfolios" /\ portfolioRowsLeft = {}
    /\ sprocNames' = [i \in 1..Len(sprocRows) |-> sprocRows[i].name]
    /\ validIndices' = SelectSeq([i \in 1..Len(sprocRows) |-> i],
                                 LAMBDA i : sprocRows[i].def.valid)
    /\ files' = [k \in Names |->
                    IF \E i \in 1..Len(sprocRows) :
                          sprocRows[i].name = k /\ sprocRows[i].def.valid
                    THEN sprocRows[CHOOSE i \in 1..Len(sprocRows) :
                                      sprocRows[i].name = k].def
                    ELSE files[k]]
    /\ mainPc' = "bar"
    /\ UNCHANGED <<globals, evars, sprocRows, tableRowsLeft, portfolioRowsLeft,
                   poolSize, spawned, sendIdx, sprocChClosed, wg, chans, worker,
                   sink, halted, hvars>>

\* getSprocs gone wrong: it goes on to the send loop and leaves the bar for
\* later
BarStartLater ==
    /\ Running /\ mainPc = "bar"
    /\ sendIdx' = 1
    /\ mainPc' = "send"
    /\ UNCHANGED <<globals, evars, dbvars, poolSize, spawned, sprocNames,
                   validIndices, sprocChClosed, wg, chans, worker, sink,
                   halted, hvars>>

\* getSprocs: bar = pb.New(len(validIndices)); bar.Start()
BarStart ==
    /\ Running /\ mainPc = "bar"
    /\ bar' = [nil |-> FALSE, total |-> Len(validIndices), current |-> 0]
    /\ sendIdx' = 1
    /\ mainPc' = "send"
    /\ UNCHANGED <<whitelist, portfolioKeys, evars, dbvars, poolSize, spawned,
                   sprocNames, validIndices, sprocChClosed, wg, chans, worker,
                   sink, halted, hvars>>

\* the definition file of sprocNames[i], as ioutil.ReadFile returns it
ReadFile(i) == files[sprocNames[i]]

\* the send gone wrong: every goroutine waiting on sprocCh gets the task
SendSprocBroadcast(w) ==
    /\ Running /\ mainPc = "send" /\ sendIdx <= Len(validIndices)
    /\ w.pc = "recv"
    /\ LET i == validIndices[sendIdx]
           s == [key |-> sprocNames[i], value |-> files[sprocNames[i]]]
           k == CopiesIn(w, worker)
       IN  /\ worker' = (worker (-) (w :> k))
                            (+) ([w EXCEPT !.pc = "create", !.s = s,
                                           !.n = sendIdx] :> k)
           /\ dispatched' = Append(dispatched, s)
           /\ received' = Append(received, k)
    /\ parsed' = Append(parsed, 0)
    /\ sendIdx' = sendIdx + 1
    /\ UNCHANGED <<globals, evars, dbvars, poolSize, mainPc, spawned,
                   sprocNames, validIndices, sprocChClosed, wg, chans, sink,
                   halted, published>>

\* getSprocs `outCh <- keyValue{...}` meets `for s := range inCh` of worker
\* w: sprocCh is unbuffered, the send and the receive are one step
SendSproc(w) ==
    /\ Running /\ mainPc = "send" /\ sendIdx <= Len(validIndices)
    /\ w.pc = "recv"
    /\ LET i == validIndices[sendIdx]
           s == [key |-> sprocNames[i], value |-> ReadFile(i)]
       IN  /\ worker' = Become(worker, w, [w EXCEPT !.pc = "create", !.s = s,
                                                    !.n = sendIdx])
           /\ dispatched' = Append(dispatched, s)
    /\ received' = Append(received, 1)
    /\ parsed' = Append(parsed, 0)
    /\ sendIdx' = sendIdx + 1
    /\ UNCHANGED <<globals, evars, dbvars, poolSize, mainPc, spawned,
                   sprocNames, validIndices, sprocChClosed, wg, chans, sink,
                   halted, published>>

\* getSprocs gone wrong: it closes outCh only after it has sent something
GetSprocsReturnIfSent ==
    /\ Running /\ mainPc = "send" /\ sendIdx > Len(validIndices)
    /\ Len(validIndices) > 0
    /\ sprocChClosed' = TRUE
    /\ mainPc' = "wait"
    /\ UNCHANGED <<globals, evars, dbvars, poolSize, spawned, sprocNames,
                   validIndices, sendIdx, wg, chans, worker, sink, halted,
                   hvars>>

\* getSprocs returns nil: the deferred close(outCh) runs
GetSprocsReturn ==
    /\ Running /\ mainPc = "send" /\ sendIdx > Len(validIndices)
    /\ sprocChClosed' = TRUE
    /\ mainPc' = "wait"
    /\ UNCHANGED <<globals, evars, dbvars, poolSize, spawned, sprocNames,
                   validIndices, sendIdx, wg, chans, worker, sink, halted,
                   hvars>>

\* main gone wrong: it does not wait for the WaitGroup
MainNoWait ==
    /\ Running /\ mainPc = "wait"
    /\ mainPc' = "closeTables"
    /\ UNCHANGED <<globals, evars, dbvars, poolSize, spawned, sprocNames,
                   validIndices, sendIdx, sprocChClosed, wg, chans, worker,
                   sink, halted, hvars>>

\* main: wg.Wait() returns
MainWait ==
    /\ Running /\ mainPc = "wait" /\ wg = 0
    /\ mainPc' = "closeTables"
    /\ UNCHANGED <<globals, evars, dbvars, poolSize, spawned, sprocNames,
                   validIndices, sendIdx, sprocChClosed, wg, chans, worker,
                   sink, halted, hvars>>

\* main: close(tablesCh); close(errCh); close(portfoliosCh), one at a time
MainClose(pc, c, next) ==
    /\ Running /\ mainPc = pc
    /\ chans' = [chans EXCEPT ![c].closed = TRUE]
    /\ mainPc' = next
    /\ UNCHANGED <<globals, evars, dbvars, poolSize, spawned, sprocNames,
                   validIndices, sendIdx, sprocChClosed, wg, worker, sink,
                   halted, hvars>>

CloseTables == MainClose("closeTables", "tables", "closeErrors")
CloseErrors == MainClose("closeErrors", "errors", "closePortfolios")
ClosePortfolios == MainClose("closePortfolios", "portfolios", "tablesHandled")

\* main `<-tablesHandled` (and the like) meets `done <- true` of the sink
MainHandled(pc, c, next) ==
    /\ Running /\ mainPc = pc
    /\ sink[c].pc = "signal"
    /\ sink' = [sink EXCEPT ![c].pc = "done"]
    /\ mainPc' = next
    /\ UNCHANGED <<globals, evars, dbvars, poolSize, spawned, sprocNames,
                   validIndices, sendIdx, sprocChClosed, wg, chans, worker,
                   halted, hvars>>

TablesHandled == MainHandled("tablesHandled", "tables", "errorsHandled")
ErrorsHandled == MainHandled("errorsHandled", "errors", "portfoliosHandled")
PortfoliosHandled == MainHandled("portfoliosHandled", "portfolios", "finish")

\* main: bar.FinishPrint("All sprocs parsed"), and main returns
MainFinish ==
    /\ Running /\ mainPc = "finish"
    /\ mainPc' = "done"
    /\ UNCHANGED <<globals, evars, dbvars, poolSize, spawned, sprocNames,
                   validIndices, sendIdx, sprocChClosed, wg, chans, worker,
                   sink, halted, hvars>>

\* ---------------------------------------------------- handleSprocDetails
\* `os.Create(filepath.Join(defDir, s.key+".sql"))`: the file is truncated
WorkerCreate(w) ==
    /\ Running /\ w.pc = "create"
    /\ files' = [files EXCEPT ![w.s.key] = EmptyFile]
    /\ worker' = Become(worker, w, [w EXCEPT !.pc = "write"])
    /\ UNCHANGED <<globals, evars, sprocRows, tableRowsLeft, portfolioRowsLeft,
                   mvars, chans, sink, halted, hvars>>

\* `f.WriteString(s.value)`; f.Close()
WorkerWrite(w) ==
    /\ Running /\ w.pc = "write"
    /\ files' = [files EXCEPT ![w.s.key] = w.s.value]
    /\ worker' = Become(worker, w, [w EXCEPT !.pc = "parse"])
    /\ UNCHANGED <<globals, evars, sprocRows, tableRowsLeft, portfolioRowsLeft,
                   mvars, chans, sink, halted, hvars>>

\* `errors, tables, portfolios := parseSproc(s)`; a listener that meets a
\* name it cannot handle ends the process (log.Fatalln)
\* parseSproc gone wrong: a fatal shape is contained, the goroutine drops
\* the procedure and goes back to the head of its range loop
WorkerParseContained(w) ==
    /\ Running /\ w.pc = "parse"
    /\ \E res \in parseSproc(w.s, whitelist, portfolioKeys) :
          IF res.fatal
          THEN worker' = Become(worker, w, NewWorker)
          ELSE worker' = Become(worker, w,
                                [w EXCEPT !.pc = "publish",
                                          !.errors = res.errors,
                                          !.tables = res.tables,
                                          !.portfolios = res.portfolios])
    /\ parsed' = [parsed EXCEPT ![w.n] = @ + 1]
    /\ UNCHANGED <<globals, evars, dbvars, mvars, chans, sink, halted,
                   dispatched, received, published>>

WorkerParse(w) ==
    /\ Running /\ w.pc = "parse"
    /\ \E res \in parseSproc(w.s, whitelist, portfolioKeys) :
          IF res.fatal
          THEN /\ halted' = "fatal"
               /\ UNCHANGED worker
          ELSE /\ worker' = Become(worker, w,
                                [w EXCEPT !.pc = "publish",
                                          !.errors = res.errors,
                                          !.tables = res.tables,
                                          !.portfolios = res.portfolios])
               /\ UNCHANGED halted
    /\ parsed' = [parsed EXCEPT ![w.n] = @ + 1]
    /\ UNCHANGED <<globals, evars, dbvars, mvars, chans, sink, dispatched,
                   received, published>>

\* `ch <- row` by a worker: a send on a closed channel panics
Send(c, row) ==
    IF chans[c].closed
    THEN /\ halted' = "panic"
         /\ UNCHANGED <<chans, published>>
    ELSE /\ chans' = [chans EXCEPT ![c].buf = Append(@, row)]
         /\ published' = [published EXCEPT ![c] = @ + 1]
         /\ UNCHANGED halted

\* `errCh <- []string{s.key, e}`
WorkerSendError(w) ==
    /\ Running /\ w.pc = "publish"
    /\ w.errors # << >>
    /\ CanSend("errors")
    /\ Send("errors", <<w.s.key, Head(w.errors)>>)
    /\ worker' = Become(worker, w, [w EXCEPT !.errors = Tail(@)])
    /\ UNCHANGED <<globals, evars, dbvars, mvars, sink, dispatched, received,
                   parsed>>

\* the send gone wrong: it does not block, a row that finds the buffer
\* full is lost
WorkerSendTableOrDrop(w) ==
    /\ Running /\ w.pc = "publish"
    /\ w.errors = << >> /\ w.tables # << >>
    /\ IF CanSend("tables")
       THEN Send("tables", <<w.s.key, Head(w.tables)>>)
       ELSE UNCHANGED <<chans, published, halted>>
    /\ worker' = Become(worker, w, [w EXCEPT !.tables = Tail(@)])
    /\ UNCHANGED <<globals, evars, dbvars, mvars, sink, dispatched, received,
                   parsed>>

\* `outCh <- []string{s.key, t}`
WorkerSendTable(w) ==
    /\ Running /\ w.pc = "publish"
    /\ w.errors = << >> /\ w.tables # << >>
    /\ CanSend("tables")
    /\ Send("tables", <<w.s.key, Head(w.tables)>>)
    /\ worker' = Become(worker, w, [w EXCEPT !.tables = Tail(@)])
    /\ UNCHANGED <<globals, evars, dbvars, mvars, sink, dispatched, received,
                   parsed>>

\* `pCh <- []string{s.key, p}`
WorkerSendPortfolio(w) ==
    /\ Running /\ w.pc = "publish"
    /\ w.errors = << >> /\ w.tables = << >>
    /\ w.portfolios # << >>
    /\ CanSend("portfolios")
    /\ Send("portfolios", <<w.s.key, Head(w.portfolios)>>)
    /\ worker' = Become(worker, w, [w EXCEPT !.portfolios = Tail(@)])
    /\ UNCHANGED <<globals, evars, dbvars, mvars, sink, dispatched, received,
                   parsed>>

\* `bar.Increment()`, and back to the head of the range loop
WorkerIncrement(w) ==
    /\ Running /\ w.pc = "publish"
    /\ w.errors = << >> /\ w.tables = << >>
    /\ w.portfolios = << >>
    /\ IF bar.nil
       THEN /\ halted' = "panic"
            /\ UNCHANGED <<bar, worker>>
       ELSE /\ bar' = [bar EXCEPT !.current = @ + 1]
            /\ worker' = Become(worker, w, NewWorker)
            /\ UNCHANGED halted
    /\ UNCHANGED <<whitelist, portfolioKeys, evars, dbvars, mvars, chans,
                   sink, hvars>>

\* the range loop ends on the closed sprocCh: `done.Done()`
WorkerDone(w) ==
    /\ Running /\ w.pc = "recv" /\ sprocChClosed
    /\ wg' = wg - 1
    /\ worker' = Become(worker, w, [w EXCEPT !.pc = "exited"])
    /\ UNCHANGED <<globals, evars, dbvars, poolSize, mainPc, spawned,
                   sprocNames, validIndices, sendIdx, sprocChClosed, chans,
                   sink, halted, hvars>>

\* ---------------------------------------------------------------- sinks
\* os.Create, csv.NewWriter, and the header row
HandleStart(c) ==
    /\ Running /\ sink[c].pc = "start"
    /\ sink' = [sink EXCEPT ![c].pc = "range", ![c].rows = <<Header(c)>>]
    /\ UNCHANGED <<globals, evars, dbvars, mvars, chans, worker, halted,
                   hvars>>

\* handleTables, handlePortfolios: `for row := range ch { w.Write(row) }`
HandleRow(c) ==
    /\ Running /\ c # "errors" /\ sink[c].pc = "range"
    /\ chans[c].buf # << >>
    /\ sink' = [sink EXCEPT ![c].rows = Append(@, Head(chans[c].buf))]
    /\ chans' = [chans EXCEPT ![c].buf = Tail(@)]
    /\ UNCHANGED <<globals, evars, dbvars, mvars, worker, halted, hvars>>

\* the error sink gone wrong: it notes that the procedure had an error
\* and does not count
HandleErrorsRowFlag ==
    /\ Running /\ sink["errors"].pc = "range"
    /\ chans["errors"].buf # << >>
    /\ LET proc == Head(chans["errors"].buf)[1]
       IN  sink' = [sink EXCEPT
                       !["errors"].counts = (proc :> 1) @@ @]
    /\ chans' = [chans EXCEPT !["errors"].buf = Tail(@)]
    /\ UNCHANGED <<globals, evars, dbvars, mvars, worker, halted, hvars>>

\* handleErrors: `for row := range ch { counts[row[0]]++ }`
HandleErrorsRow ==
    /\ Running /\ sink["errors"].pc = "range"
    /\ chans["errors"].buf # << >>
    /\ LET proc == Head(chans["errors"].buf)[1]
           counts == sink["errors"].counts
       IN  sink' = [sink EXCEPT
                       !["errors"].counts =
                           IF proc \in DOMAIN counts
                           THEN [counts EXCEPT ![proc] = @ + 1]
                           ELSE (proc :> 1) @@ counts]
    /\ chans' = [chans EXCEPT !["errors"].buf = Tail(@)]
    /\ UNCHANGED <<globals, evars, dbvars, mvars, worker, halted, hvars>>

\* the sink gone wrong: it flushes as soon as its channel is empty
HandleClosedEarly(c) ==
    /\ Running /\ c # "errors" /\ sink[c].pc = "range"
    /\ chans[c].buf = << >>
    /\ sink' = [sink EXCEPT ![c].pc = "signal", ![c].flushes = @ + 1]
    /\ UNCHANGED <<globals, evars, dbvars, mvars, chans, worker, halted,
                   hvars>>

\* the sink gone wrong: it flushes and returns without `done <- true`
HandleClosedNoSignal(c) ==
    /\ Running /\ c # "errors" /\ sink[c].pc = "range"
    /\ chans[c].buf = << >> /\ chans[c].closed
    /\ sink' = [sink EXCEPT ![c].pc = "returned", ![c].flushes = @ + 1]
    /\ UNCHANGED <<globals, evars, dbvars, mvars, chans, worker, halted,
                   hvars>>

\* handleTables, handlePortfolios: the range loop ends on the closed and
\* drained channel; w.Flush(), then the sink waits to send on done
HandleClosed(c) ==
    /\ Running /\ c # "errors" /\ sink[c].pc = "range"
    /\ chans[c].buf = << >> /\ chans[c].closed
    /\ sink' = [sink EXCEPT ![c].pc = "signal", ![c].flushes = @ + 1]
    /\ UNCHANGED <<globals, evars, dbvars, mvars, chans, worker, halted,
                   hvars>>

\* handleErrors: the same, writing one row per counted procedure first
HandleErrorsClosed ==
    /\ Running /\ sink["errors"].pc = "range"
    /\ chans["errors"].buf = << >> /\ chans["errors"].closed
    /\ LET counts == sink["errors"].counts
       IN  \E order \in RangeOrders(DOMAIN counts) :
              sink' = [sink EXCEPT
                  !["errors"].pc = "signal",
                  !["errors"].flushes = @ + 1,
                  !["errors"].rows = @ \o
                      [k \in 1..Len(order) |->
                          <<order[k], Itoa(counts[order[k]])>>]]
    /\ UNCHANGED <<globals, evars, dbvars, mvars, chans, worker, halted,
                   hvars>>

\* -------------------------------------------------------------- the run
Next ==
    \/ MainGoSinks
    \/ MainGoWorker
    \/ MainCallGetSprocs
    \/ LoadTable
    \/ TablesLoaded
    \/ LoadPortfolio
    \/ FetchDefinitions
    \/ BarStart
    \/ \E w \in BagToSet(worker) : SendSproc(w)
    \/ GetSprocsReturn
    \/ MainWait
    \/ CloseTables
    \/ CloseErrors
    \/ ClosePortfolios
    \/ TablesHandled
    \/ ErrorsHandled
    \/ PortfoliosHandled
    \/ MainFinish
    \/ \E w \in BagToSet(worker) : WorkerCreate(w)
    \/ \E w \in BagToSet(worker) : WorkerWrite(w)
    \/ \E w \in BagToSet(worker) : WorkerParse(w)
    \/ \E w \in BagToSet(worker) : WorkerSendError(w)
    \/ \E w \in BagToSet(worker) : WorkerSendTable(w)
    \/ \E w \in BagToSet(worker) : WorkerSendPortfolio(w)
    \/ \E w \in BagToSet(worker) : WorkerIncrement(w)
    \/ \E w \in BagToSet(worker) : WorkerDone(w)
    \/ \E c \in ChanNames : HandleStart(c)
    \/ \E c \in ChanNames : HandleRow(c)
    \/ HandleErrorsRow
    \/ \E c \in ChanNames : HandleClosed(c)
    \/ HandleErrorsClosed

Spec == PipelineInit /\ [][Next]_vars

\* the Go scheduler runs every goroutine that can take a step
FairSpec == Spec /\ WF_vars(Next)

\* ================================================================ claims
\* ----------------------------------------------------- pipeline (Spec)
\* the procedure getSprocs sends n-th
TaskAt(n) == sprocRows[validIndices[n]].name

\* the goroutines of the pool that hold the n-th task
Holders(n) == {w \in BagToSet(worker) : w.n = n}

\* main has not yet returned from wg.Wait()
BeforeBarrier ==
    mainPc \in {"goSinks", "goWorkers", "loadTables", "loadPortfolios",
                "bar", "send", "wait"}

\* C1. Exactly-once processing: every task getSprocs puts on sprocCh is
\* the next entry of validIndices, is received by one worker and by no
\* other, is held by that worker until parseSproc has run on it once, and
\* is never parsed twice; when main is past wg.Wait() every entry of
\* validIndices has been dispatched and parsed once.
C1_ExactlyOnce ==
    /\ Len(dispatched) <= Len(validIndices)
    /\ Len(received) = Len(dispatched)
    /\ Len(parsed) = Len(dispatched)
    /\ \A n \in 1..Len(dispatched) :
          /\ dispatched[n].key = TaskAt(n)
          /\ received[n] = 1
          /\ parsed[n] <= 1
          /\ Cardinality(Holders(n)) <= 1
          /\ \A w \in Holders(n) :
                /\ CopiesIn(w, worker) = 1
                /\ w.s = dispatched[n]
                /\ w.pc \in {"create", "write", "parse", "publish"}
                /\ (Running /\ parsed[n] = 1) => w.pc = "publish"
          /\ parsed[n] = 0 =>
                \E w \in Holders(n) : w.pc \in {"create", "write", "parse"}
    /\ (Running /\ ~BeforeBarrier) =>
          /\ Len(dispatched) = Len(validIndices)
          /\ \A n \in 1..Len(dispatched) : parsed[n] = 1

\* two tasks went through the pool of 6 and main has finished
C1_Witness ==
    /\ mainPc = "done"
    /\ poolSize = NumWorkers
    /\ parsed = <<1, 1>>

\* C2. Join barrier: a fact channel is closed only when the WaitGroup is
\* at zero and every worker main started has left its loop, and no worker
\* ever sends on a closed channel (which would panic).
C2_JoinBarrier ==
    /\ halted # "panic"
    /\ \A c \in ChanNames :
          chans[c].closed =>
              /\ wg = 0
              /\ BagCardinality(worker) = poolSize
              /\ \A w \in BagToSet(worker) :
                    /\ w.pc = "exited"
                    /\ w.errors = << >> /\ w.tables = << >>
                    /\ w.portfolios = << >>

\* tablesCh is closed, errCh not yet, after the 6 workers published rows
C2_Witness ==
    /\ chans["tables"].closed /\ ~chans["errors"].closed
    /\ poolSize = NumWorkers
    /\ published["tables"] >= 1 /\ published["errors"] >= 1

RECURSIVE SumOver(_, _)
SumOver(f, S) ==
    IF S = {} THEN 0
    ELSE LET x == CHOOSE y \in S : TRUE
         IN  f[x] + SumOver(f, S \ {x})

\* the rows sink c has taken off its channel
Consumed(c) ==
    IF c = "errors"
    THEN SumOver(sink[c].counts, DOMAIN sink[c].counts)
    ELSE IF sink[c].rows = << >> THEN 0 ELSE Len(sink[c].rows) - 1

Finalized(c) == sink[c].pc \in {"signal", "done"}

\* C3. Each sink flushes and signals at most once, does so only when its
\* channel is closed and drained and it has consumed every row that was
\* ever sent on it, with no worker left holding a row for it; when main is
\* done each sink has finalized exactly once.
C3_FinalizeOnce ==
    \A c \in ChanNames :
        /\ sink[c].flushes <= 1
        /\ Finalized(c) <=> sink[c].flushes = 1
        /\ Finalized(c) =>
              /\ chans[c].closed
              /\ chans[c].buf = << >>
              /\ Consumed(c) = published[c]
              /\ \A w \in BagToSet(worker) :
                    /\ c = "errors" => w.errors = << >>
                    /\ c = "tables" => w.tables = << >>
                    /\ c = "portfolios" => w.portfolios = << >>
        /\ mainPc = "done" => sink[c].flushes = 1

\* the error sink is through, having counted something, while the
\* portfolio sink still waits to signal
C3_Witness ==
    /\ sink["errors"].pc = "done"
    /\ published["errors"] >= 1
    /\ sink["portfolios"].pc = "signal"
    /\ published["portfolios"] >= 1

\* C5. Pool-size independence: for either pool size (1 worker, 6 workers)
\* and every interleaving, once the table and the portfolio report are
\* flushed, the set of tables (of codes) they hold for a procedure is the
\* one fixed by the feed and the loaded catalog alone.
FactsOf(c, k) ==
    {sink[c].rows[i][2] :
        i \in {j \in 2..Len(sink[c].rows) : sink[c].rows[j][1] = k}}

Range(seq) == {seq[i] : i \in 1..Len(seq)}

\* what a parse of the definitions named k yields under the full catalog
OneParse(k, i) ==
    CHOOSE res \in parseSproc([key |-> k, value |-> sprocRows[i].def],
                              LoadWhitelist(TableRows), PortfolioRows) : TRUE

DefsOf(k) ==
    {i \in 1..Len(sprocRows) : sprocRows[i].name = k /\ sprocRows[i].def.valid}

ExpectedTables(k) == UNION {Range(OneParse(k, i).tables) : i \in DefsOf(k)}
ExpectedPortfolios(k) == UNION {Range(OneParse(k, i).portfolios) : i \in DefsOf(k)}

C5_PoolSizeIndependent ==
    /\ poolSize \in PoolSizes
    /\ Finalized("tables") =>
          \A k \in Names : FactsOf("tables", k) = ExpectedTables(k)
    /\ Finalized("portfolios") =>
          \A k \in Names : FactsOf("portfolios", k) = ExpectedPortfolios(k)

\* the pool of 6 has run two procedures that both use a table
C5_Witness ==
    /\ poolSize = NumWorkers
    /\ Finalized("tables") /\ Finalized("portfolios")
    /\ FactsOf("tables", "p1") # {} /\ FactsOf("tables", "p2") # {}
    /\ FactsOf("portfolios", "p2") # {}

\* -------------------------------------------- shutdown (FairSpec)
\* C4. Deadlock-free shutdown: under fair scheduling, unless a parse ends
\* the process (log.Fatalln), main passes wg.Wait(), closes the three
\* channels, receives the three done signals and finishes; in particular
\* the run never stops with main, workers and sinks blocked.
C4_ShutsDown == <>(mainPc = "done" \/ halted = "fatal")

\* main has finished after the progress bar was incremented twice
C4_Witness ==
    /\ mainPc = "done"
    /\ bar.current = 2
    /\ \A c \in ChanNames : sink[c].pc = "done"

\* ------------------------------------------- the listener (ExtractSpec)
\* an identifier without the brackets of a SQUARE_BRACKET_ID
Unquoted(id) ==
    IF Len(id) >= 2 /\ id[1] = "[" /\ id[Len(id)] = "]"
    THEN SubSeq(id, 2, Len(id) - 1)
    ELSE id

\* the name an identifier denotes, case-insensitively
Name(id) == ToUpper[Unquoted(id)]

\* the table references and the aliases of the routine under walk
TableRefsDelivered == {e.ref : e \in {d \in delivered : d.type = "table_name"}}
AliasesDeclared == {e.text : e \in {d \in delivered : d.type = "table_alias"}}

\* three-part references: database, schema, table
HomeQualified(ref) == Len(ref) = 3 /\ Name(ref[1]) = BRS
OtherQualified(ref) == Len(ref) = 3 /\ Name(ref[1]) # BRS

\* the names of the segments of a reference, joined with dots
JoinedNames(ref) == Join[[i \in 1..Len(ref) |-> Name(ref[i])], "."]

\* the canonical key of a reference of one to three parts
CanonicalKey(ref) ==
    IF Len(ref) <= 2 \/ HomeQualified(ref)
    THEN Name(ref[Len(ref)])
    ELSE JoinedNames(ref)

\* the reference names a temp table
IsTemp(ref) == HasPrefix[Unquoted(ref[Len(ref)]), <<"#">>]

\* the TableUsed facts of the routine
Facts == Range(tablesUsedCh)

\* C6. At the end of the input no TableUsed fact has been emitted for a
\* reference whose table name begins with '#', be the reference
\* unqualified, schema-qualified, or three-part with the home database or
\* with another one, whatever the whitelist holds. ExitTsql_file tests the
\* whole key for the prefix '#': the key of a reference qualified with
\* another database begins with the database, and is sent.
C6_NoTempTableFact ==
    walk = "exited" =>
        \A ref \in TableRefsDelivered :
            IsTemp(ref) => CanonicalKey(ref) \notin Facts

\* C7. Alias exclusion in every order of the events: at the end of the
\* input no TableUsed fact equals, case-insensitively, an alias declared
\* in the routine, be the alias entered before or after the table name.
C7_AliasExclusion ==
    walk = "exited" =>
        \A a \in AliasesDeclared : \A i \in 1..Len(tablesUsedCh) :
            ToUpper[tablesUsedCh[i]] # Name(a)

\* the alias t was entered last, after the whitelisted table [T] and the
\* table dbo.u: only U is reported
C7_Witness ==
    /\ walk = "exited"
    /\ lastEntered = TableAlias(id_t)
    /\ TableName(<<id_T>>) \in delivered
    /\ <<"T">> \in whitelist
    /\ tablesUsedCh = << <<"U">> >>

\* C8. The facts of a routine are canonical keys of references of the
\* routine, and no two of them are the same key, however the table was
\* written (casing, brackets, schema, home database).
C8_CanonicalKeyOnce ==
    walk = "exited" =>
        /\ \A i \in 1..Len(tablesUsedCh) :
              \E ref \in TableRefsDelivered : tablesUsedCh[i] = CanonicalKey(ref)
        /\ \A i, j \in 1..Len(tablesUsedCh) :
              i # j => ToUpper[tablesUsedCh[i]] # ToUpper[tablesUsedCh[j]]

\* t, [T] and BRS.dbo.t were referenced: one fact T
C8_Witness ==
    /\ walk = "exited"
    /\ delivered = {TableName(<<id_t>>), TableName(<<id_T>>),
                    TableName(<<BRS, id_dbo, id_t>>)}
    /\ tablesUsedCh = << <<"T">> >>

\* C9. Whitelist rule: the canonical key of an unqualified, a
\* schema-qualified or a home-database-qualified reference is a fact only
\* if it is, in upper case, in the whitelist.
C9_WhitelistRule ==
    walk = "exited" =>
        \A ref \in TableRefsDelivered :
            (~OtherQualified(ref) /\ CanonicalKey(ref) \in Facts)
                => ToUpper[CanonicalKey(ref)] \in whitelist

\* t and dbo.u were referenced, the whitelist knows T alone: one fact T
C9_Witness ==
    /\ walk = "exited"
    /\ {TableName(<<id_t>>), TableName(<<id_dbo, id_u>>)} \subseteq delivered
    /\ whitelist = { <<"T">> }
    /\ tablesUsedCh = << <<"T">> >>

\* C10. Whitelist bypass: at the end of the input every reference
\* qualified with a database other than BRS has its fact, the three
\* segments without their brackets, in upper case, joined with dots,
\* whatever the whitelist holds.
C10_WhitelistBypass ==
    walk = "exited" =>
        \A ref \in TableRefsDelivered :
            OtherQualified(ref) => JoinedNames(ref) \in Facts

\* db.dbo.t was referenced under an empty whitelist: the fact DB.DBO.T
C10_Witness ==
    /\ walk = "exited"
    /\ whitelist = {}
    /\ TableName(<<id_db, id_dbo, id_t>>) \in delivered
    /\ <<"D", "B", ".", "D", "B", "O", ".", "T">> \in Facts

\* the string literal of a constant context without its quotes
Token(text) == TrimSuffix[TrimPrefix[TrimSpace[text], <<"'">>], <<"'">>]

\* the reference rule of portfolio matching: the token itself, the codes
\* that begin with the token less a trailing '%', the codes that end with
\* the token less a leading '%', the last two each read off the token
MatchExact(tok, pkeys) == IF tok \in pkeys THEN {tok} ELSE {}
MatchPrefix(tok, pkeys) ==
    IF HasSuffix[tok, <<"%">>]
    THEN {k \in pkeys : HasPrefix[k, TrimSuffix[tok, <<"%">>]]}
    ELSE {}
MatchSuffix(tok, pkeys) ==
    IF HasPrefix[tok, <<"%">>]
    THEN {k \in pkeys : HasSuffix[k, TrimPrefix[tok, <<"%">>]]}
    ELSE {}
ReferenceMatch(tok, pkeys) ==
    MatchExact(tok, pkeys) \cup MatchPrefix(tok, pkeys) \cup MatchSuffix(tok, pkeys)

\* the codes an event mentions by the reference rule
Mentions(e, pkeys) ==
    CASE e.type = "constant" -> ReferenceMatch(Token(e.text), pkeys)
      [] e.type = "simple_id" -> MatchExact(TrimSpace[e.text], pkeys)
      [] OTHER -> {}

\* C11. Portfolio matching equals the reference rule: while the listener
\* is walked and at the end of the input, the codes it has recorded are
\* the union, over the events delivered, of the codes the reference rule
\* gives for each. EnterConstant overwrites id in the suffix-wildcard
\* branch, so for '%a%' the prefix-wildcard branch matches the codes that
\* end with "a", not with "a%".
C11_PortfolioMatching ==
    walk \in {"walk", "exited"} =>
        info.Portfolios = UNION {Mentions(e, portfolioKeys) : e \in delivered}

\* C12. normalizeTableName is idempotent: every key the listener has
\* recorded, the result of normalizing the text of a table name or alias of
\* one to three segments, is returned unchanged when normalized again.
C12_Idempotent ==
    \A k \in info.Tables \cup info.Aliases : normalizeTableName[k] = Key(k)

\* the text of a table-name or table-alias event
IdentifierText(e) == IF e.type = "table_name" THEN RefText(e.ref) ELSE e.text

\* the event hands the normalizer more than three dot-separated segments
OverQualified(e) ==
    /\ e.type \in {"table_name", "table_alias"}
    /\ Len(Split[TrimSpace[IdentifierText(e)], "."]) > 3

\* a worker has run parseSproc on a task whose definition holds such an
\* identifier
NormalizerRefused ==
    \E n \in 1..Len(dispatched) :
        /\ parsed[n] >= 1
        /\ \E i \in 1..Len(dispatched[n].value.events) :
              OverQualified(dispatched[n].value.events[i])

\* C13. An identifier of more than three segments reaching the normalizer,
\* from a table name or from an alias, in any worker, aborts the whole
\* run: from then on no row is sent on any of the three channels by any
\* worker, and main never reaches its end.
C13_FatalAbortsRun ==
    [][NormalizerRefused => (published' = published /\ mainPc' # "done")]_vars

\* the alias [a.b.t.u] of p6 ended the run while another worker still held
\* rows of p1 to send
C13_Witness ==
    /\ halted = "fatal"
    /\ NormalizerRefused
    /\ \E n \in 1..Len(dispatched) : dispatched[n].key = "p6" /\ parsed[n] = 1
    /\ \E w \in BagToSet(worker) :
          w.pc = "publish" /\ w.s.key = "p1" /\ w.tables # << >>

\* the event hands the normalizer no segment at all: its text is empty or
\* white space
EmptyIdentifier(e) ==
    /\ e.type \in {"table_name", "table_alias"}
    /\ TrimSpace[IdentifierText(e)] = << >>

\* C14. An empty (zero-segment) identifier reaching the normalizer is
\* fatal: when the listener has just been given a table name or an alias
\* whose text is empty or white space, the process has ended; the text is
\* neither given a key nor passed over.
C14_EmptyIsFatal ==
    EmptyIdentifier(lastEntered) => walk = "fatal"

\* the syntax errors the parser raised in the parses of the tasks named k
ErrorEvents(k) ==
    SumOver([n \in 1..Len(dispatched) |-> dispatched[n].value.errors],
            {n \in 1..Len(dispatched) : dispatched[n].key = k})

\* the data rows of parsing_errors.csv that name k
ErrorRows(k) ==
    {i \in 2..Len(sink["errors"].rows) : sink["errors"].rows[i][1] = k}

\* C15. In the finalized error report a procedure whose parses raised
\* syntax errors has one row, holding their number, and a procedure whose
\* parses raised none has no row, in whatever order the workers sent the
\* errors.
C15_ErrorCounts ==
    Finalized("errors") =>
        \A k \in Names :
            IF ErrorEvents(k) > 0
            THEN /\ Cardinality(ErrorRows(k)) = 1
                 /\ \A i \in ErrorRows(k) :
                       sink["errors"].rows[i] = <<k, Itoa(ErrorEvents(k))>>
            ELSE ErrorRows(k) = {}

\* p1 raised one error and p2 two, in a pool of 6; the report lists p2
\* before p1
C15_Witness ==
    /\ mainPc = "done"
    /\ poolSize = NumWorkers
    /\ sink["errors"].rows =
          <<Header("errors"), <<"p2", <<"2">>>>, <<"p1", <<"1">>>>>>

\* the task as it would be were its text free of syntax errors
WithoutErrors(s) == [s EXCEPT !.value.errors = 0]

\* the tables and the portfolio codes a parse of task s reports
TablesOf(s) ==
    UNION {Range(res.tables) : res \in parseSproc(s, whitelist, portfolioKeys)}
PortfoliosOf(s) ==
    UNION {Range(res.portfolios) :
               res \in parseSproc(s, whitelist, portfolioKeys)}

\* C16. A syntax error aborts neither the extraction nor the run: nothing
\* but a refusal of the normalizer ends the process, and when main is done
\* every task has been parsed, and the reports hold for every task whose
\* parse raised syntax errors the tables and the portfolio codes the same
\* events yield without the errors.
C16_SyntaxErrorTolerated ==
    /\ halted # "no" => NormalizerRefused
    /\ mainPc = "done" =>
          \A n \in 1..Len(dispatched) :
              /\ parsed[n] = 1
              /\ dispatched[n].value.errors > 0 =>
                    /\ TablesOf(WithoutErrors(dispatched[n]))
                          \subseteq FactsOf("tables", dispatched[n].key)
                    /\ PortfoliosOf(WithoutErrors(dispatched[n]))
                          \subseteq FactsOf("portfolios", dispatched[n].key)

\* p1 and p2 both raised syntax errors: the run is over, both are in the
\* error report and their facts are in the other two
C16_Witness ==
    /\ mainPc = "done"
    /\ ErrorRows("p1") # {} /\ ErrorRows("p2") # {}
    /\ FactsOf("tables", "p1") = { <<"T">> }
    /\ FactsOf("tables", "p2") = { <<"D", "B", ".", "D", "B", "O", ".", "T">> }
    /\ FactsOf("portfolios", "p2") = { <<"a", "b">> }

\* every report is finalized and holds its header row and nothing else
HeadersOnly ==
    \A c \in ChanNames : Finalized(c) /\ sink[c].rows = <<Header(c)>>

\* C17. With an empty feed (no active procedure) the run still comes to
\* its normal end, the three sinks finalize, and each report holds its
\* header row and no data row.
C17_EmptyFeed ==
    (sprocRows = << >>) ~> (mainPc = "done" /\ halted = "no" /\ HeadersOnly)

\* the pool of 6 was started, nothing was dispatched, main is done
C17_Witness ==
    /\ sprocRows = << >>
    /\ poolSize = NumWorkers
    /\ mainPc = "done"
    /\ dispatched = << >>
    /\ bar.total = 0
    /\ HeadersOnly

\* both catalogs hold every row of their query, and no row is left to scan
CatalogLoaded ==
    /\ tableRowsLeft = {} /\ portfolioRowsLeft = {}
    /\ whitelist = LoadWhitelist(TableRows)
    /\ portfolioKeys = PortfolioRows

\* C18, as stated. The catalog load completes before any worker starts: in
\* every state in which a goroutine of the pool has been started the
\* whitelist and the portfolio codes are fully loaded, and stay as they
\* are. main starts the pool before it calls getSprocs.
C18_LoadedBeforeStart ==
    spawned > 0 => CatalogLoaded

\* C18, amended. The catalog load completes before any worker is handed
\* its first task: in every state in which getSprocs has sent a task the
\* whitelist and the portfolio codes are fully loaded, and stay as they
\* are.
C18_LoadedBeforeFirstTask ==
    dispatched # << >> => CatalogLoaded

\* a worker of the pool of 6 is about to parse the first task, the second
\* is not sent yet
C18_Witness ==
    /\ CatalogLoaded
    /\ poolSize = NumWorkers
    /\ Len(validIndices) = 2 /\ Len(dispatched) = 1
    /\ \E w \in BagToSet(worker) : w.pc = "parse"

\* the rows of the feed whose definition is NULL, and those whose
\* definition is the empty text
Absent(i) == ~sprocRows[i].def.valid
Empty(i) == sprocRows[i].def = EmptyFile

\* getSprocs has sent a task for the procedure named k
Dispatched(k) == \E n \in 1..Len(dispatched) : dispatched[n].key = k

\* a row that names k is in a channel or in a report, or k has been
\* counted by the error sink
FactEmitted(k) ==
    \/ \E c \in ChanNames :
          \/ \E j \in 1..Len(chans[c].buf) : chans[c].buf[j][1] = k
          \/ \E j \in 2..Len(sink[c].rows) : sink[c].rows[j][1] = k
    \/ k \in DOMAIN sink["errors"].counts

\* when main is done every row of the feed that has a definition has been
\* dispatched and parsed
OthersProcessed ==
    mainPc = "done" =>
        /\ Len(dispatched) =
              Cardinality({i \in 1..Len(sprocRows) : ~Absent(i)})
        /\ \A n \in 1..Len(dispatched) : parsed[n] = 1

\* C19, as stated. A procedure whose source is absent or empty is skipped
\* entirely: no task is sent for it and no row of any report names it,
\* while the other procedures of the feed are processed. getSprocs skips
\* a NULL definition only: the empty text is dispatched like any other.
C19_SkippedEntirely ==
    /\ \A i \in 1..Len(sprocRows) :
          (Absent(i) \/ Empty(i)) =>
              /\ ~Dispatched(sprocRows[i].name)
              /\ ~FactEmitted(sprocRows[i].name)
    /\ OthersProcessed

\* C19, amended. A procedure whose source is absent is skipped entirely:
\* no task is sent for it; for a procedure whose source is absent or empty
\* no row of any report names it; the other procedures of the feed are
\* processed.
C19_AbsentSkipped ==
    /\ \A i \in 1..Len(sprocRows) :
          /\ Absent(i) => ~Dispatched(sprocRows[i].name)
          /\ (Absent(i) \/ Empty(i)) => ~FactEmitted(sprocRows[i].name)
    /\ OthersProcessed

\* the feed was p1 and p3, p3 without a definition: main is done, p1 alone
\* was dispatched and is in the reports
C19_Witness ==
    /\ mainPc = "done"
    /\ Len(sprocRows) = 2 /\ sprocRows[1].name = "p1" /\ Absent(2)
    /\ Len(dispatched) = 1 /\ Dispatched("p1")
    /\ FactEmitted("p1")

\* getSprocs has not yet finished populating the two maps and initialising
\* the bar: main is somewhere before the send loop
Populating ==
    mainPc \in {"goSinks", "goWorkers", "loadTables", "loadPortfolios", "bar"}

\* the goroutines of the pool that are past a receive on sprocCh: what
\* they do next reads the maps (parseSproc) or the bar (bar.Increment)
Readers ==
    {w \in BagToSet(worker) : w.pc \in {"create", "write", "parse", "publish"}}

\* C20. No worker reads the whitelist, the portfolio codes or the bar
\* before getSprocs has populated and initialised them, and getSprocs does
\* not write them once the first task is sent: a worker that is past the
\* head of its loop has received a task, getSprocs is then in or past its
\* send loop and the bar exists, and from the first send on the two maps
\* and the bar variable stay as they are. No state has a read and a write
\* of them side by side.
C20_NoConcurrentAccess ==
    /\ [](Readers # {} =>
            (dispatched # << >> /\ ~Populating /\ ~bar.nil /\ CatalogLoaded))
    /\ [][dispatched # << >> =>
            /\ whitelist' = whitelist
            /\ portfolioKeys' = portfolioKeys
            /\ bar'.nil = bar.nil /\ bar'.total = bar.total]_vars

\* two workers of the pool read side by side, one about to parse and one
\* about to increment the bar, after getSprocs has returned
C20_Witness ==
    /\ mainPc = "wait"
    /\ \E w \in Readers : w.pc = "parse"
    /\ \E w \in Readers :
          /\ w.pc = "publish"
          /\ w.errors = << >> /\ w.tables = << >> /\ w.portfolios = << >>

====
